---- MODULE Spec2Model ----
(***************************************************************************)
(* restart_anki.c: wait for a process to exit, then either delete an       *)
(* add-on directory or stage an add-on package, and relaunch Anki.         *)
(*                                                                         *)
(* C strings are sequences of one-character strings (the terminating NUL   *)
(* is implicit); a char* that may be NULL is a record [null, chars].       *)
(* Every Win32 / libc call with an outcome the program does not control    *)
(* (OpenProcess, GetExitCodeProcess, MultiByteToWideChar, malloc,          *)
(* SHFileOperationW, DeleteFileA, RemoveDirectoryA, CreateProcessA) is a   *)
(* nondeterministic choice over its documented outcomes.  `log` is the     *)
(* trace of calls made so far, `out` the lines printed to stdout.          *)
(***************************************************************************)
EXTENDS Integers, Sequences, FiniteSets, TLC

\* ------------------------------------------------------------------ bounds
\* Largest argc an invocation is started with (argv[0] included).
MaxArgc == 6
\* Largest number of liveness checks that may report the target as running.
MaxRunning == 3
\* Length of the long executable path among the inputs.
LongLen == 2048
\* Longest string handed to ends_with in the stand-alone specification.
MaxStrLen == 3

\* ------------------------------------------------------ program constants
\* sizeof(command) in launch_anki.
CommandSize == 2048
\* The argument of Sleep in the wait loop.
SleepMs == 500
\* STILL_ACTIVE of <windows.h>.
STILL_ACTIVE == 259
\* The argc main requires.
RequiredArgc == 5
\* DWORD and long are 32 bits wide on Windows.
DwordBits == 32

\* A 32-bit quantity is kept as two 16-bit halves [hi, lo].
Half == 2 ^ (DwordBits \div 2)
Word(hi, lo) == [hi |-> hi, lo |-> lo]
Zero32 == Word(0, 0)

\* Two's complement negation modulo 2^32.
Neg32(w) ==
  IF w.lo = 0 THEN Word((Half - w.hi) % Half, 0)
  ELSE Word(Half - 1 - w.hi, Half - w.lo)

\* A long as sign and magnitude; LONG_MAX and LONG_MIN of <limits.h>.
Long(neg, mag) == [neg |-> neg, mag |-> mag]
LONG_MAX == Long(FALSE, Word(Half \div 2 - 1, Half - 1))
LONG_MIN == Long(TRUE, Word(Half \div 2, 0))

\* -------------------------------------------------------------- C strings
NULL == [null |-> TRUE, chars |-> <<>>]
Ptr(s) == [null |-> FALSE, chars |-> s]

strlen(s) == Len(s)

\* strcmp: 0 exactly when the two strings are the same characters.
strcmp(a, b) == IF a = b THEN 0 ELSE 1

\* The string starting `n` characters into `s` (pointer arithmetic s + n).
Advance(s, n) == SubSeq(s, n + 1, Len(s))

Repeat(c, n) == [i \in 1..n |-> c]

Digits == <<"0", "1", "2", "3", "4", "5", "6", "7", "8", "9">>
IsDigit(c) == \E d \in 1..10 : Digits[d] = c
DigitVal(c) == (CHOOSE d \in 1..10 : Digits[d] = c) - 1
IsSpace(c) == c = " "

\* ------------------------------------------------------------------- atol
RECURSIVE SkipSpaces(_)
SkipSpaces(s) ==
  IF s # <<>> /\ IsSpace(Head(s)) THEN SkipSpaces(Tail(s)) ELSE s

\* Value of the longest prefix of digits of s, continuing from acc: the
\* value modulo 2^32 in acc.mag, and in acc.ovf whether it passed 2^32.
RECURSIVE DigitsValue(_, _)
DigitsValue(s, acc) ==
  IF s # <<>> /\ IsDigit(Head(s))
    THEN LET lo == 10 * acc.mag.lo + DigitVal(Head(s))
             hi == 10 * acc.mag.hi + lo \div Half
         IN DigitsValue(Tail(s),
                        [mag |-> Word(hi % Half, lo % Half),
                         ovf |-> acc.ovf \/ hi >= Half])
    ELSE acc

\* What atol reads: leading white space is skipped, one optional sign is
\* taken, then digits up to the first other character.
AtolRead(s) ==
  LET t == SkipSpaces(s)
      neg == t # <<>> /\ Head(t) = "-"
      signed == t # <<>> /\ Head(t) \in {"-", "+"}
      v == DigitsValue(IF signed THEN Tail(t) ELSE t,
                       [mag |-> Zero32, ovf |-> FALSE])
  IN [neg |-> neg, mag |-> v.mag, ovf |-> v.ovf]

\* Whether the value read fits a long.
FitsLong(v) ==
  /\ ~v.ovf
  /\ \/ v.mag.hi < Half \div 2
     \/ v.neg /\ v.mag = LONG_MIN.mag

\* The long with the 32-bit pattern w.
PatternToLong(w) ==
  IF w.hi >= Half \div 2 THEN Long(TRUE, Neg32(w)) ELSE Long(FALSE, w)

\* The results atol(s) can have.  A value outside long is undefined
\* behaviour: the MSVC runtime saturates, other runtimes wrap.
atol(s) ==
  LET v == AtolRead(s)
      wrapped == PatternToLong(IF v.neg THEN Neg32(v.mag) ELSE v.mag)
  IN IF FitsLong(v)
       THEN {Long(v.neg /\ v.mag # Zero32, v.mag)}
       ELSE {IF v.neg THEN LONG_MIN ELSE LONG_MAX, wrapped}

\* The cast (DWORD)v of a long.
ToDword(v) == IF v.neg THEN Neg32(v.mag) ELSE v.mag

\* -------------------------------------------------------------- ends_with
\* The suffix main tests the fourth argument for: ".ankiaddon".
PackageSuffix == <<".", "a", "n", "k", "i", "a", "d", "d", "o", "n">>

\* ends_with mutated to compare the start of str instead of its end.
ends_with_from_start(str, suffix) ==
  IF str.null \/ suffix.null THEN FALSE
  ELSE IF strlen(suffix.chars) > strlen(str.chars) THEN FALSE
  ELSE strcmp(SubSeq(str.chars, 1, strlen(suffix.chars)), suffix.chars) = 0

ends_with(str, suffix) ==
  IF str.null \/ suffix.null THEN FALSE
  ELSE LET str_len == strlen(str.chars)
           suffix_len == strlen(suffix.chars)
       IN IF suffix_len > str_len THEN FALSE
          ELSE strcmp(Advance(str.chars, str_len - suffix_len),
                      suffix.chars) = 0

\* ---------------------------------------------------------------- snprintf
Quote == <<"\"">>
CmdPrefix ==
  <<"c", "m", "d", " ", "/", "c", " ", "s", "t", "a", "r", "t", " ", "/", "B",
    " ", "\"", "\"", " ">>
DashB == <<" ", "-", "b", " ">>

\* "cmd /c start /B \"\" \"%s\" -b \"%s\"" with its arguments filled in.
FormatNoPackage(anki_exe, anki_base) ==
  CmdPrefix \o Quote \o anki_exe \o Quote \o DashB
            \o Quote \o anki_base \o Quote

\* "cmd /c start /B \"\" \"%s\" -b \"%s\" \"%s\"" with its arguments.
FormatWithPackage(anki_exe, anki_base, package_file) ==
  FormatNoPackage(anki_exe, anki_base)
    \o <<" ">> \o Quote \o package_file \o Quote

\* snprintf(buf, size, ...): at most size - 1 characters are stored.
snprintf(size, formatted) ==
  IF Len(formatted) > size - 1 THEN SubSeq(formatted, 1, size - 1)
  ELSE formatted

\* The command launch_anki builds in command[2048].
BuildCommand(anki_exe, anki_base, package_file) ==
  IF ~package_file.null /\ strlen(package_file.chars) > 0
    THEN snprintf(CommandSize,
                  FormatWithPackage(anki_exe, anki_base, package_file.chars))
    ELSE snprintf(CommandSize, FormatNoPackage(anki_exe, anki_base))

\* ------------------------------------------------------------------ state
VARIABLES
  argc,          \* main's argc
  argv,          \* argv[1..argc-1]
  pc,            \* the statement main (or its callee) executes next
  pid,           \* main's pid, once assigned
  result,        \* is_process_running: result of GetExitCodeProcess
  exitCode,      \* is_process_running: exitCode (garbage until written)
  running,       \* the value the last is_process_running call returned
  nRunning,      \* number of checks that returned TRUE
  len,           \* send_to_trash: len
  shResult,      \* send_to_trash: result of SHFileOperationW
  trashed,       \* the value send_to_trash returned
  package_file,  \* main's package_file
  command,       \* launch_anki: the contents of command[]
  launched,      \* the value launch_anki returned
  status,        \* the process exit status, once main has returned
  handles,       \* the handles the program holds open
  buffers,       \* the heap buffers the program holds
  log,           \* calls made so far, in order
  out,           \* lines printed so far, in order
  str,           \* ends_with called on its own: first argument
  suffix,        \* ends_with called on its own: second argument
  ret            \* ends_with called on its own: the value returned

mainVars == <<argc, argv, pc, pid, result, exitCode, running, nRunning, len,
              shResult, trashed, package_file, command, launched, status,
              handles, buffers, log, out>>
ewVars == <<str, suffix, ret>>
vars == <<argc, argv, pc, pid, result, exitCode, running, nRunning, len,
          shResult, trashed, package_file, command, launched, status,
          handles, buffers, log, out, str, suffix, ret>>

\* A value for an int that has not been assigned.
Unset == 0 - 1

Call(name, ok, arg) == [call |-> name, ok |-> ok, arg |-> arg]
Did(name, ok) == Call(name, ok, 0)

\* ----------------------------------------------------------------- inputs
PidArgs ==
  { <<"0">>, <<"1", "2">>, <<"1", "2", "a">>, <<"a", "b", "c">>, <<>>,
    <<"-", "1">>, <<" ", "7">>, <<"+", "0">>,
    <<"4", "2", "9", "4", "9", "6", "7", "2", "9", "6">> }
ExeArgs == { <<"a", ".", "e", "x", "e">>, Repeat("x", LongLen) }
BaseArgs == { <<"C", ":", "\\", "D">> }
PathArgs ==
  { <<"C", ":", "\\", "d">>,
    <<>>,
    <<"p">> \o PackageSuffix,
    PackageSuffix,
    <<"p", ".", "A", "N", "K", "I", "A", "D", "D", "O", "N">>,
    PackageSuffix \o <<"x">> }
ExtraArgs == { <<"e">> }

ArgChoices(i) ==
  IF i = 1 THEN PidArgs
  ELSE IF i = 2 THEN ExeArgs
  ELSE IF i = 3 THEN BaseArgs
  ELSE IF i = 4 THEN PathArgs
  ELSE ExtraArgs

\* Outcomes of GetExitCodeProcess's out-parameter (and of the garbage in
\* exitCode when the call fails and writes nothing).
ExitCodes == {0, 1, STILL_ACTIVE}
\* Return values of SHFileOperationW: 0 is success.
ShResults == {0, 2}

\* The argument vectors argv[1..n] an invocation may be started with.
RECURSIVE Argvs(_)
Argvs(n) ==
  IF n = 0 THEN {<<>>}
  ELSE {Append(a, x) : a \in Argvs(n - 1), x \in ArgChoices(n)}

\* main's locals, the resources and the traces before main runs.
LocalsInit ==
  /\ pid = Word(Unset, Unset)
  /\ result = FALSE
  /\ exitCode = Unset
  /\ running = FALSE
  /\ nRunning = 0
  /\ len = Unset
  /\ shResult = Unset
  /\ trashed = FALSE
  /\ package_file = NULL
  /\ command = <<>>
  /\ launched = FALSE
  /\ status = Unset
  /\ handles = {}
  /\ buffers = {}
  /\ log = <<>>
  /\ out = <<>>

MainInit ==
  /\ argc \in 1..MaxArgc
  /\ argv \in Argvs(argc - 1)
  /\ pc = "main"
  /\ LocalsInit

EwIdle == str = NULL /\ suffix = NULL /\ ret = FALSE

Init == MainInit /\ EwIdle

\* --------------------------------------------------------------- main: 119
Say(line) == out' = Append(out, line)

\* The test of line 120 mutated to reject only too few arguments.
WrongArgc_too_few(n) == n < RequiredArgc

\* The test of line 120.
WrongArgc(n) == n # RequiredArgc

\* The test of line 130.
InvalidPid(p) == p = Zero32

\* Lines 120-135: the argument checks and the conversion of argv[1].
ParseArgs ==
  /\ pc = "main"
  /\ IF WrongArgc(argc)
       THEN /\ Say("usage")
            /\ status' = 1
            /\ pc' = "exit"
            /\ pid' = pid
       ELSE \E v \in atol(argv[1]) :
              /\ pid' = ToDword(v)
              /\ IF InvalidPid(ToDword(v))
                   THEN Say("invalid_pid") /\ status' = 1 /\ pc' = "exit"
                   ELSE Say("waiting") /\ status' = status
                        /\ pc' = "OpenProcess"
  /\ UNCHANGED <<argc, argv, result, exitCode, running, nRunning, len,
                 shResult, trashed, package_file, command, launched, handles,
                 buffers, log, str, suffix, ret>>

\* ------------------------------------------------- is_process_running: 11
\* Line 21 mutated to look at exitCode without looking at result.
IsRunningResult_ignore_result(r, code) == code = STILL_ACTIVE

\* Line 21: the value is_process_running returns after a query.
IsRunningResult(r, code) == r /\ code = STILL_ACTIVE

\* Lines 12-15: OpenProcess; a NULL handle makes the function return FALSE.
OpenProcess ==
  /\ pc = "OpenProcess"
  /\ \E opened \in BOOLEAN :
       /\ IF opened
            THEN /\ handles' = handles \cup {"hProcess"}
                 /\ log' = Append(log, Did("OpenProcess", TRUE))
                 /\ running' = running
                 /\ pc' = "GetExitCodeProcess"
            ELSE /\ handles' = handles
                 /\ log' = log \o <<Did("OpenProcess", FALSE),
                                     Did("is_process_running", FALSE)>>
                 /\ running' = FALSE
                 /\ pc' = "while"
  /\ UNCHANGED <<argc, argv, pid, result, exitCode, nRunning, len, shResult,
                 trashed, package_file, command, launched, status, buffers,
                 out, str, suffix, ret>>

\* Lines 17-18: GetExitCodeProcess; when it fails exitCode keeps whatever
\* the stack held.  The target is reported alive at most MaxRunning times.
GetExitCodeProcess ==
  /\ pc = "GetExitCodeProcess"
  /\ \E r \in BOOLEAN, code \in ExitCodes :
       /\ (r /\ code = STILL_ACTIVE) => nRunning < MaxRunning
       /\ result' = r
       /\ exitCode' = code
       /\ log' = Append(log, Call("GetExitCodeProcess", r, code))
  /\ pc' = "CloseHandle"
  /\ UNCHANGED <<argc, argv, pid, running, nRunning, len, shResult, trashed,
                 package_file, command, launched, status, handles, buffers,
                 out, str, suffix, ret>>

\* Lines 19-21: CloseHandle(hProcess) and the return.
CloseHandle ==
  /\ pc = "CloseHandle"
  /\ handles' = handles \ {"hProcess"}
  /\ running' = IsRunningResult(result, exitCode)
  /\ nRunning' = IF running' THEN nRunning + 1 ELSE nRunning
  /\ log' = log \o <<Did("CloseHandle", TRUE),
                      Did("is_process_running", running')>>
  /\ pc' = "while"
  /\ UNCHANGED <<argc, argv, pid, result, exitCode, len, shResult, trashed,
                 package_file, command, launched, status, buffers, out, str,
                 suffix, ret>>

\* ---------------------------------------------------------- main: 138-143
\* The loop mutated to poll again without sleeping.
While_no_sleep ==
  /\ pc = "while"
  /\ IF running
       THEN Say("still_running") /\ pc' = "OpenProcess"
       ELSE Say("no_longer_running") /\ pc' = "branch"
  /\ UNCHANGED <<argc, argv, pid, result, exitCode, running, nRunning, len,
                 shResult, trashed, package_file, command, launched, status,
                 handles, buffers, log, str, suffix, ret>>

\* Line 138: the loop condition, on the value the check returned.
While ==
  /\ pc = "while"
  /\ IF running
       THEN Say("still_running") /\ pc' = "Sleep"
       ELSE Say("no_longer_running") /\ pc' = "branch"
  /\ UNCHANGED <<argc, argv, pid, result, exitCode, running, nRunning, len,
                 shResult, trashed, package_file, command, launched, status,
                 handles, buffers, log, str, suffix, ret>>

\* Line 140: Sleep(500), then the next check.
Sleep ==
  /\ pc = "Sleep"
  /\ log' = Append(log, Call("Sleep", TRUE, SleepMs))
  /\ pc' = "OpenProcess"
  /\ UNCHANGED <<argc, argv, pid, result, exitCode, running, nRunning, len,
                 shResult, trashed, package_file, command, launched, status,
                 handles, buffers, out, str, suffix, ret>>

\* The branch mutated to set package_file before the test of the suffix.
Branch_keep_package ==
  /\ pc = "branch"
  /\ package_file' = Ptr(argv[4])
  /\ IF ends_with(Ptr(argv[4]), Ptr(PackageSuffix))
       THEN /\ Say("installing")
            /\ log' = log
            /\ pc' = "snprintf"
       ELSE /\ Say("deleting")
            /\ log' = Append(log, Did("send_to_trash", TRUE))
            /\ pc' = "MultiByteToWideChar"
  /\ UNCHANGED <<argc, argv, pid, result, exitCode, running, nRunning, len,
                 shResult, trashed, command, launched, status, handles,
                 buffers, str, suffix, ret>>

\* Lines 146-152: the package / delete branch.
Branch ==
  /\ pc = "branch"
  /\ IF ends_with(Ptr(argv[4]), Ptr(PackageSuffix))
       THEN /\ Say("installing")
            /\ package_file' = Ptr(argv[4])
            /\ log' = log
            /\ pc' = "snprintf"
       ELSE /\ Say("deleting")
            /\ package_file' = NULL
            /\ log' = Append(log, Did("send_to_trash", TRUE))
            /\ pc' = "MultiByteToWideChar"
  /\ UNCHANGED <<argc, argv, pid, result, exitCode, running, nRunning, len,
                 shResult, trashed, command, launched, status, handles,
                 buffers, str, suffix, ret>>

\* ------------------------------------------------------ send_to_trash: 25
\* The number of wide characters MultiByteToWideChar reports for a string
\* given with length -1: its characters and the terminating NUL.
WideLen(path) == Len(path) + 1

\* Lines 27-29: the sizing call; 0 is the call's failure value.
MultiByteToWideChar ==
  /\ pc = "MultiByteToWideChar"
  /\ \E n \in {0, WideLen(argv[4])} :
       /\ len' = n
       /\ log' = Append(log, Call("MultiByteToWideChar", n # 0, n))
       /\ IF n = 0
            THEN trashed' = FALSE /\ pc' = "trash_return"
            ELSE trashed' = trashed /\ pc' = "malloc"
  /\ UNCHANGED <<argc, argv, pid, result, exitCode, running, nRunning,
                 shResult, package_file, command, launched, status, handles,
                 buffers, out, str, suffix, ret>>

\* Lines 31-35: malloc of the wide buffer, and the converting call.
Malloc ==
  /\ pc = "malloc"
  /\ \E ok \in BOOLEAN :
       IF ok
         THEN /\ buffers' = buffers \cup {"wpath"}
              /\ log' = log \o <<Call("malloc", TRUE, len),
                                  Call("MultiByteToWideChar", TRUE, len)>>
              /\ trashed' = trashed
              /\ pc' = "SHFileOperationW"
         ELSE /\ buffers' = buffers
              /\ log' = Append(log, Call("malloc", FALSE, len))
              /\ trashed' = FALSE
              /\ pc' = "trash_return"
  /\ UNCHANGED <<argc, argv, pid, result, exitCode, running, nRunning, len,
                 shResult, package_file, command, launched, status, handles,
                 out, str, suffix, ret>>

\* Lines 38-43: the recycle-bin delete.  pFrom is to end in two NULs and
\* wpath ends in one, so what the call reads after the path is whatever
\* the heap holds: it may succeed or fail on any path.
SHFileOperationW ==
  /\ pc = "SHFileOperationW"
  /\ \E r \in ShResults :
       /\ shResult' = r
       /\ log' = Append(log, Did("SHFileOperationW", r = 0))
  /\ pc' = "free"
  /\ UNCHANGED <<argc, argv, pid, result, exitCode, running, nRunning, len,
                 trashed, package_file, command, launched, status, handles,
                 buffers, out, str, suffix, ret>>

\* send_to_trash mutated to give up when the recycle-bin delete fails.
Free_no_fallback ==
  /\ pc = "free"
  /\ buffers' = buffers \ {"wpath"}
  /\ log' = Append(log, Did("free", TRUE))
  /\ out' = out
  /\ trashed' = (shResult = 0)
  /\ pc' = "trash_return"
  /\ UNCHANGED <<argc, argv, pid, result, exitCode, running, nRunning, len,
                 shResult, package_file, command, launched, status, handles,
                 str, suffix, ret>>

\* Lines 44-48 and 58: free(wpath), then the test of the result.
Free ==
  /\ pc = "free"
  /\ buffers' = buffers \ {"wpath"}
  /\ log' = Append(log, Did("free", TRUE))
  /\ IF shResult # 0
       THEN Say("recycle_bin_failed") /\ trashed' = trashed
            /\ pc' = "DeleteFileA"
       ELSE out' = out /\ trashed' = TRUE /\ pc' = "trash_return"
  /\ UNCHANGED <<argc, argv, pid, result, exitCode, running, nRunning, len,
                 shResult, package_file, command, launched, status, handles,
                 str, suffix, ret>>

\* Lines 49-51: the permanent delete as a file.
DeleteFileA ==
  /\ pc = "DeleteFileA"
  /\ \E ok \in BOOLEAN :
       /\ log' = Append(log, Did("DeleteFileA", ok))
       /\ IF ok
            THEN trashed' = TRUE /\ pc' = "trash_return"
            ELSE trashed' = trashed /\ pc' = "RemoveDirectoryA"
  /\ UNCHANGED <<argc, argv, pid, result, exitCode, running, nRunning, len,
                 shResult, package_file, command, launched, status, handles,
                 buffers, out, str, suffix, ret>>

\* Lines 52-55: the permanent delete as a directory.
RemoveDirectoryA ==
  /\ pc = "RemoveDirectoryA"
  /\ \E ok \in BOOLEAN :
       /\ log' = Append(log, Did("RemoveDirectoryA", ok))
       /\ trashed' = ok
  /\ pc' = "trash_return"
  /\ UNCHANGED <<argc, argv, pid, result, exitCode, running, nRunning, len,
                 shResult, package_file, command, launched, status, handles,
                 buffers, out, str, suffix, ret>>

\* main mutated to treat a failed delete as fatal.
TrashReturn_exit_on_failure ==
  /\ pc = "trash_return"
  /\ log' = Append(log, Did("send_to_trash_returned", trashed))
  /\ IF ~trashed
       THEN Say("warning_delete_failed") /\ status' = 1 /\ pc' = "exit"
       ELSE out' = out /\ status' = status /\ pc' = "snprintf"
  /\ UNCHANGED <<argc, argv, pid, result, exitCode, running, nRunning, len,
                 shResult, trashed, package_file, command, launched, handles,
                 buffers, str, suffix, ret>>

\* Lines 152-155: main, on the value send_to_trash returned.
TrashReturn ==
  /\ pc = "trash_return"
  /\ log' = Append(log, Did("send_to_trash_returned", trashed))
  /\ IF ~trashed THEN Say("warning_delete_failed") ELSE out' = out
  /\ pc' = "snprintf"
  /\ UNCHANGED <<argc, argv, pid, result, exitCode, running, nRunning, len,
                 shResult, trashed, package_file, command, launched, status,
                 handles, buffers, str, suffix, ret>>

\* -------------------------------------------------------- launch_anki: 76
\* Lines 78-89: the command line is formatted into command[].
Snprintf ==
  /\ pc = "snprintf"
  /\ command' = BuildCommand(argv[2], argv[3], package_file)
  /\ log' = Append(log, Did("launch_anki", TRUE))
  /\ Say("executing")
  /\ pc' = "CreateProcessA"
  /\ UNCHANGED <<argc, argv, pid, result, exitCode, running, nRunning, len,
                 shResult, trashed, package_file, launched, status, handles,
                 buffers, str, suffix, ret>>

\* Lines 91-98 and 104: CreateProcessA; on failure launch_anki returns.
CreateProcessA ==
  /\ pc = "CreateProcessA"
  /\ \E ok \in BOOLEAN :
       /\ log' = Append(log, Did("CreateProcessA", ok))
       /\ IF ok
            THEN /\ handles' = handles \cup {"pi.hProcess", "pi.hThread"}
                 /\ launched' = launched
                 /\ pc' = "CloseChildHandles"
            ELSE /\ handles' = handles
                 /\ launched' = FALSE
                 /\ pc' = "launch_return"
  /\ UNCHANGED <<argc, argv, pid, result, exitCode, running, nRunning, len,
                 shResult, trashed, package_file, command, status, buffers,
                 out, str, suffix, ret>>

\* launch_anki mutated to close the process handle only.
CloseChildHandles_leak_thread ==
  /\ pc = "CloseChildHandles"
  /\ handles' = handles \ {"pi.hProcess"}
  /\ log' = Append(log, Did("CloseHandle", TRUE))
  /\ launched' = TRUE
  /\ pc' = "launch_return"
  /\ UNCHANGED <<argc, argv, pid, result, exitCode, running, nRunning, len,
                 shResult, trashed, package_file, command, status, buffers,
                 out, str, suffix, ret>>

\* Lines 99-101: both handles of the child are closed.
CloseChildHandles ==
  /\ pc = "CloseChildHandles"
  /\ handles' = handles \ {"pi.hProcess", "pi.hThread"}
  /\ log' = log \o <<Did("CloseHandle", TRUE), Did("CloseHandle", TRUE)>>
  /\ launched' = TRUE
  /\ pc' = "launch_return"
  /\ UNCHANGED <<argc, argv, pid, result, exitCode, running, nRunning, len,
                 shResult, trashed, package_file, command, status, buffers,
                 out, str, suffix, ret>>

\* main mutated to return 0 whatever launch_anki returned.
LaunchReturn_always_zero ==
  /\ pc = "launch_return"
  /\ IF ~launched THEN Say("error_launch_failed") ELSE Say("launched")
  /\ status' = 0
  /\ pc' = "exit"
  /\ UNCHANGED <<argc, argv, pid, result, exitCode, running, nRunning, len,
                 shResult, trashed, package_file, command, launched, handles,
                 buffers, log, str, suffix, ret>>

\* Lines 158-164: main, on the value launch_anki returned.
LaunchReturn ==
  /\ pc = "launch_return"
  /\ IF ~launched
       THEN Say("error_launch_failed") /\ status' = 1
       ELSE Say("launched") /\ status' = 0
  /\ pc' = "exit"
  /\ UNCHANGED <<argc, argv, pid, result, exitCode, running, nRunning, len,
                 shResult, trashed, package_file, command, launched, handles,
                 buffers, log, str, suffix, ret>>

Next ==
  \/ ParseArgs
  \/ OpenProcess
  \/ GetExitCodeProcess
  \/ CloseHandle
  \/ While
  \/ Sleep
  \/ Branch
  \/ MultiByteToWideChar
  \/ Malloc
  \/ SHFileOperationW
  \/ Free
  \/ DeleteFileA
  \/ RemoveDirectoryA
  \/ TrashReturn
  \/ Snprintf
  \/ CreateProcessA
  \/ CloseChildHandles
  \/ LaunchReturn

Spec == Init /\ [][Next]_vars

\* The steps of main after the wait loop.
PostWait ==
  \/ Branch
  \/ MultiByteToWideChar
  \/ Malloc
  \/ SHFileOperationW
  \/ Free
  \/ DeleteFileA
  \/ RemoveDirectoryA
  \/ TrashReturn
  \/ Snprintf
  \/ CreateProcessA
  \/ CloseChildHandles
  \/ LaunchReturn

\* main is one sequential thread, and every call it makes after the wait
\* loop returns: past the loop, a step that can be taken is taken.
FairSpec == Init /\ [][Next]_vars /\ WF_vars(PostWait)

\* ------------------------------------------------- ends_with on its own
EwAlphabet == {"a", "A", "."}

RECURSIVE StringsUpTo(_)
StringsUpTo(n) ==
  IF n = 0 THEN {<<>>}
  ELSE StringsUpTo(n - 1)
         \cup {Append(t, c) : t \in {u \in StringsUpTo(n - 1) : Len(u) = n - 1},
                              c \in EwAlphabet}

EwPointers == {NULL} \cup {Ptr(t) : t \in StringsUpTo(MaxStrLen)}

EwInit ==
  /\ str \in EwPointers
  /\ suffix \in EwPointers
  /\ ret = FALSE
  /\ argc = 1
  /\ argv = <<>>
  /\ pc = "ends_with"
  /\ LocalsInit

\* One call ends_with(str, suffix).
CallEndsWith ==
  /\ pc = "ends_with"
  /\ ret' = ends_with(str, suffix)
  /\ pc' = "ends_with_returned"
  /\ UNCHANGED <<argc, argv, pid, result, exitCode, running, nRunning, len,
                 shResult, trashed, package_file, command, launched, status,
                 handles, buffers, log, out, str, suffix>>

EwNext == CallEndsWith

SpecEndsWith == EwInit /\ [][EwNext]_vars

\* ================================================================ claims
\* suf is the last Len(suf) characters of s, character by character.
IsSuffixOf(suf, s) ==
  /\ Len(suf) <= Len(s)
  /\ \A i \in 1..Len(suf) : s[Len(s) - Len(suf) + i] = suf[i]

Indices(name) == {i \in DOMAIN log : log[i].call = name}
Count(name) == Cardinality(Indices(name))
Checks(value) ==
  {i \in DOMAIN log : log[i] = Did("is_process_running", value)}

WaitPcs == {"OpenProcess", "GetExitCodeProcess", "CloseHandle", "while",
            "Sleep"}
DeleteCalls == {"SHFileOperationW", "DeleteFileA", "RemoveDirectoryA"}
TrashCalls == DeleteCalls
                \cup {"send_to_trash", "MultiByteToWideChar", "malloc", "free"}
LaunchCalls == {"launch_anki", "CreateProcessA"}

\* main has returned through one of its two argument checks.
UsageExit ==
  /\ pc = "exit"
  /\ status = 1
  /\ log = <<>>
  /\ out \in {<<"usage">>, <<"invalid_pid">>}

\* main is past the wait loop and past the test of the suffix.
PastBranch == pc \notin ({"main", "branch"} \cup WaitPcs) /\ log # <<>>

\* C1: no delete and no launch step starts before a check of the target
\* has returned FALSE; until one has, main is in the wait loop; and between
\* two consecutive checks there is exactly one Sleep, of 500 ms.
C1_WaitUntilGone ==
  /\ \A i \in DOMAIN log :
       log[i].call \in TrashCalls \cup LaunchCalls
         => \E j \in Checks(FALSE) : j < i
  /\ (Checks(FALSE) = {} /\ pc # "main") => (pc \in WaitPcs \/ UsageExit)
  /\ \A i, j \in Indices("is_process_running") :
       (i < j /\ ~\E k \in Indices("is_process_running") : i < k /\ k < j)
         => /\ Cardinality({k \in Indices("Sleep") : i < k /\ k < j}) = 1
            /\ \A k \in Indices("Sleep") : log[k].arg = SleepMs

\* C1 witness: the launch has started after two checks that found the
\* target running and a third that found it gone.
C1_Witness ==
  /\ Count("launch_anki") = 1
  /\ Cardinality(Checks(TRUE)) = 2
  /\ Count("Sleep") = 2

\* argv[1] is an optional sign and one or more digits, and nothing else.
IsDecimalInteger(s) ==
  LET u == IF s # <<>> /\ Head(s) \in {"-", "+"} THEN Tail(s) ELSE s
  IN u # <<>> /\ \A i \in 1..Len(u) : IsDigit(u[i])

\* argv[1] is a decimal integer of value 0.
IsDecimalZero(s) ==
  LET u == IF s # <<>> /\ Head(s) \in {"-", "+"} THEN Tail(s) ELSE s
  IN u # <<>> /\ \A i \in 1..Len(u) : u[i] = "0"

\* C2 as stated: an argument count other than four, or a pid argument that
\* is 0 or is not a decimal integer, gives a usage error, exit code 1 and no
\* side effect.
C2_Original ==
  (pc # "main" /\ (argc # RequiredArgc \/ ~IsDecimalInteger(argv[1])
                                       \/ IsDecimalZero(argv[1])))
    => UsageExit

\* C2 amended: an argument count other than four, or a pid argument that
\* (DWORD)atol converts to 0, gives an error on stdout, exit code 1 and no
\* side effect (no check, sleep, delete or launch); every other invocation
\* goes on to the first liveness check.
C2_UsageError ==
  pc # "main" =>
    IF argc # RequiredArgc \/ pid = Zero32
      THEN UsageExit
      ELSE ~UsageExit /\ (pc = "OpenProcess" \/ Count("OpenProcess") >= 1)

\* C2 witness: a pid argument without digits has been rejected.
C2_Witness ==
  /\ argc = RequiredArgc
  /\ argv[1] = <<"a", "b", "c">>
  /\ UsageExit
  /\ out = <<"invalid_pid">>

\* The lines of stdout that announce the branch taken.
BranchLines == {i \in DOMAIN out : out[i] \in {"installing", "deleting"}}

\* C3: past the wait step exactly one branch is taken: with a fourth
\* argument ending in ".ankiaddon" no delete of any kind is attempted and
\* the path is the package given to the relaunch; otherwise send_to_trash is
\* called and the relaunch is given no package.
C3_BranchExclusive ==
  PastBranch =>
    /\ Cardinality(BranchLines) = 1
    /\ IF IsSuffixOf(PackageSuffix, argv[4])
         THEN /\ \A i \in DOMAIN log : log[i].call \notin TrashCalls
              /\ package_file = Ptr(argv[4])
              /\ \E i \in DOMAIN out : out[i] = "installing"
         ELSE /\ Count("send_to_trash") = 1
              /\ package_file = NULL
              /\ \E i \in DOMAIN out : out[i] = "deleting"

\* C3 witness: a run with a package path has exited after the launch.
C3_Witness ==
  /\ pc = "exit"
  /\ argc = RequiredArgc
  /\ argv[4] = <<"p">> \o PackageSuffix
  /\ package_file = Ptr(argv[4])
  /\ Count("CreateProcessA") = 1

\* The delete attempts of send_to_trash, in order.
IsDeleteCall(e) == e.call \in DeleteCalls
Attempts == SelectSeq(log, IsDeleteCall)

\* C4 as stated: send_to_trash always attempts the recycle-bin delete
\* first, falls back to DeleteFileA and then RemoveDirectoryA, and returns
\* failure only if all three were attempted and failed.
C4_Original ==
  pc = "trash_return" =>
    /\ Attempts # <<>>
    /\ Attempts[1].call = "SHFileOperationW"
    /\ ~trashed => Attempts = <<Did("SHFileOperationW", FALSE),
                                Did("DeleteFileA", FALSE),
                                Did("RemoveDirectoryA", FALSE)>>

\* C4 amended: when the sizing call returns 0 or malloc fails,
\* send_to_trash returns failure with no delete attempted; otherwise it
\* attempts the recycle-bin delete first, DeleteFileA only after that
\* failed, RemoveDirectoryA only after both failed, and returns success
\* exactly when the last attempt it made succeeded.
C4_DeleteWithFallback ==
  pc = "trash_return" =>
    IF len = 0 \/ Call("malloc", FALSE, len) \in {log[i] : i \in DOMAIN log}
      THEN Attempts = <<>> /\ ~trashed
      ELSE \/ Attempts = <<Did("SHFileOperationW", TRUE)>> /\ trashed
           \/ Attempts = <<Did("SHFileOperationW", FALSE),
                           Did("DeleteFileA", TRUE)>> /\ trashed
           \/ Attempts = <<Did("SHFileOperationW", FALSE),
                           Did("DeleteFileA", FALSE),
                           Did("RemoveDirectoryA", TRUE)>> /\ trashed
           \/ Attempts = <<Did("SHFileOperationW", FALSE),
                           Did("DeleteFileA", FALSE),
                           Did("RemoveDirectoryA", FALSE)>> /\ ~trashed

\* C4 witness: the last fallback succeeded after the first two failed.
C4_Witness ==
  /\ pc = "trash_return"
  /\ trashed
  /\ Attempts = <<Did("SHFileOperationW", FALSE), Did("DeleteFileA", FALSE),
                  Did("RemoveDirectoryA", TRUE)>>

\* The step of ParseArgs -> WaitForExit -> branch -> Relaunch -> Exit that
\* a statement belongs to.
Phase(p) ==
  IF p = "main" THEN 0
  ELSE IF p \in WaitPcs THEN 1
  ELSE IF p \in {"branch", "MultiByteToWideChar", "malloc",
                 "SHFileOperationW", "free", "DeleteFileA",
                 "RemoveDirectoryA", "trash_return"} THEN 2
  ELSE IF p \in {"snprintf", "CreateProcessA", "CloseChildHandles",
                 "launch_return"} THEN 3
  ELSE 4

\* C5: once the target is seen gone, main never goes back to an earlier
\* step, launches at most once, and reaches its exit having attempted the
\* launch exactly once, also after send_to_trash returned failure.
C5_LinearPath ==
  /\ [][Phase(pc') >= Phase(pc) /\ Count("CreateProcessA") <= 1]_vars
  /\ (pc = "branch") ~> (pc = "exit" /\ Count("CreateProcessA") = 1)

\* C5 witness: main has exited after a failed delete and one launch.
C5_Witness ==
  /\ pc = "exit"
  /\ Count("CreateProcessA") = 1
  /\ Attempts = <<Did("SHFileOperationW", FALSE), Did("DeleteFileA", FALSE),
                  Did("RemoveDirectoryA", FALSE)>>
  /\ out[Len(out) - 2] = "warning_delete_failed"

\* C6: main exits with 1 exactly when argc is wrong, the pid converts to
\* 0, or CreateProcessA reported failure, and with 0 otherwise, whatever
\* the delete step returned.
C6_ExitCode ==
  pc = "exit" =>
    /\ status \in {0, 1}
    /\ status = 1 <=>
         \/ argc # RequiredArgc
         \/ pid = Zero32
         \/ \E i \in DOMAIN log : log[i] = Did("CreateProcessA", FALSE)

\* C6 witness: exit code 0 after a delete that failed.
C6_Witness ==
  /\ pc = "exit"
  /\ status = 0
  /\ \E i \in DOMAIN log : log[i] = Did("send_to_trash_returned", FALSE)

\* The arguments the launched command line is to carry.
ExpectedArguments ==
  Quote \o argv[2] \o Quote \o DashB \o Quote \o argv[3] \o Quote
    \o (IF IsSuffixOf(PackageSuffix, argv[4])
          THEN <<" ">> \o Quote \o argv[4] \o Quote
          ELSE <<>>)

\* C7: the command line given to CreateProcessA carries the complete
\* executable path, -b, the complete base directory and, exactly when the
\* package branch was taken, the complete package path as the last
\* argument, whatever their lengths.
C7_CommandComplete ==
  Count("CreateProcessA") = 1
    => command = CmdPrefix \o ExpectedArguments

\* C8 as stated: ends_with returns TRUE exactly when both inputs are
\* non-null and non-empty and str ends in suffix.
C8_Original ==
  pc = "ends_with_returned" =>
    /\ ret \in BOOLEAN
    /\ ret <=> /\ ~str.null /\ ~suffix.null
               /\ str.chars # <<>> /\ suffix.chars # <<>>
               /\ IsSuffixOf(suffix.chars, str.chars)

\* C8 amended: ends_with returns TRUE exactly when both inputs are
\* non-null and the last strlen(suffix) characters of str equal suffix,
\* case-sensitively; so an empty suffix gives TRUE for every non-null str,
\* the empty one included, and a null input, an empty str with a non-empty
\* suffix, or a suffix longer than str gives FALSE.
C8_EndsWith ==
  pc = "ends_with_returned" =>
    /\ ret \in BOOLEAN
    /\ ret <=> /\ ~str.null /\ ~suffix.null
               /\ IsSuffixOf(suffix.chars, str.chars)
    /\ (str.null \/ suffix.null) => ~ret
    /\ (~str.null /\ ~suffix.null /\ suffix.chars = <<>>) => ret
    /\ (~str.null /\ ~suffix.null
          /\ Len(suffix.chars) > Len(str.chars)) => ~ret

\* C8 witness: an empty suffix was found at the end of a non-empty string.
C8_Witness ==
  /\ pc = "ends_with_returned"
  /\ ret
  /\ str = Ptr(<<"a", ".", "A">>)
  /\ suffix = Ptr(<<>>)

\* The check that returned at log[i] found the process running.
FoundRunning(i) ==
  /\ i > 3
  /\ log[i - 3] = Did("OpenProcess", TRUE)
  /\ log[i - 2] = Call("GetExitCodeProcess", TRUE, STILL_ACTIVE)
  /\ log[i - 1] = Did("CloseHandle", TRUE)

\* C9: a check reports running exactly when the handle opened, the query
\* succeeded and the code was STILL_ACTIVE; when the first check reports not
\* running there is no Sleep at all; and the number of Sleep calls is the
\* number of checks that reported running (less the one about to be slept).
C9_SleepCount ==
  /\ \A i \in Indices("is_process_running") : log[i].ok <=> FoundRunning(i)
  /\ (\E i \in Checks(FALSE) : \A j \in Indices("is_process_running") : i <= j)
       => Count("Sleep") = 0
  /\ Count("Sleep") = Cardinality(Checks(TRUE))
                        - (IF running /\ pc \in {"while", "Sleep"}
                             THEN 1 ELSE 0)
  /\ Count("Sleep") = nRunning - (IF running /\ pc \in {"while", "Sleep"}
                                     THEN 1 ELSE 0)

\* C9 witness: the handle could not be opened at the first check, and main
\* exited without having slept.
C9_Witness ==
  /\ pc = "exit"
  /\ log # <<>>
  /\ log[1] = Did("OpenProcess", FALSE)
  /\ Count("Sleep") = 0
  /\ status = 0

\* C10: the process handle is held only between OpenProcess and its
\* CloseHandle, the wide buffer only between malloc and free, the child's
\* handles only between CreateProcessA and their CloseHandle calls; so the
\* program holds nothing at a Sleep, at a function's return or at exit.
C10_NoLeak ==
  /\ "hProcess" \in handles => pc \in {"GetExitCodeProcess", "CloseHandle"}
  /\ "wpath" \in buffers => pc \in {"SHFileOperationW", "free"}
  /\ (handles \cap {"pi.hProcess", "pi.hThread"}) # {}
       => pc = "CloseChildHandles"
  /\ pc \in {"Sleep", "while", "trash_return", "launch_return", "exit"}
       => handles = {} /\ buffers = {}

\* C10 witness: main has exited after a sleep, a freed buffer and a
\* successful launch.
C10_Witness ==
  /\ pc = "exit"
  /\ launched
  /\ Count("Sleep") >= 1
  /\ Count("free") = 1
  /\ Count("CloseHandle") >= 3

====
